---- MODULE Spec2Model ----
(***************************************************************************)
(* Model of src/graph/connectivity.rs: the low-link depth-first            *)
(* decompositions ConnectivityDirectedGraph (strongly connected            *)
(* components) and ConnectivityUndirectedGraph (2-edge- and 2-vertex-      *)
(* connected components), and the queries built on their id arrays.        *)
(*                                                                         *)
(* Rust vectors indexed from 0 are functions on 0..n-1, except the edge    *)
(* list and the adjacency lists, which are sequences: edge id e is the     *)
(* element e+1 of `edges`, and adj_lists[u] is the sequence of the         *)
(* <<edge id, neighbour>> pairs of u in insertion order.                   *)
(***************************************************************************)
EXTENDS Integers, Sequences, FiniteSets, TLC

\* Bounds of the model.
MaxV == 3
MaxE == 3
MaxVars == 3
MaxClauses == 2

\* usize::MAX, the parent of a DFS root (the largest integer of the checker).
USIZE_MAX == 2147483647

VARIABLES
    num_v,      \* graph.num_v()
    edges,      \* graph.edges, the endpoint pair of every edge
    adj_lists,  \* graph.adj_lists
    phase,      \* "build" while the graph is mutable, "done" once ::new ran
    cc,         \* connect.cc
    vcc,        \* connect.vcc
    isAP,       \* connect.isAP (undirected engine only)
    num_cc,     \* connect.num_cc
    num_vcc,    \* connect.num_vcc
    data,       \* the ConnectivityData of the run
    par,        \* the `parent` argument of every bcc call (USIZE_MAX for roots)
    ret         \* the value returned by the last query

vars == <<num_v, edges, adj_lists, phase, cc, vcc, isAP, num_cc, num_vcc, data, par, ret>>

Vertices == 0 .. (num_v - 1)
num_e == Len(edges)
EdgeIds == 0 .. (num_e - 1)

NoRet == [op |-> "none", arg |-> 0, panic |-> FALSE, some |-> FALSE, val |-> <<>>]

-----------------------------------------------------------------------------
(* ConnectivityData *)

ConnectivityData_new(n) ==
    [time |-> 0,
     visited |-> [v \in 0 .. (n - 1) |-> 0],
     low |-> [v \in 0 .. (n - 1) |-> 0],
     v_stack |-> <<>>,
     e_stack |-> <<>>]

visit(d, u) ==
    [d EXCEPT !.time = d.time + 1,
              !.visited[u] = d.time + 1,
              !.low[u] = d.time + 1,
              !.v_stack = Append(d.v_stack, u)]

\* lower without its effect: low-link values are never relaxed.
lower_never(d, u, val) == d

lower(d, u, val) ==
    IF d.low[u] > val THEN [d EXCEPT !.low[u] = val] ELSE d

\* s is the pair of the result under construction and the traversal data:
\* [cc, vcc, isAP, num_cc, num_vcc, data, par].
Connect_new(n, m) ==
    [cc |-> [v \in 0 .. (n - 1) |-> 0],
     vcc |-> [e \in 0 .. (m - 1) |-> 0],
     isAP |-> [v \in 0 .. (n - 1) |-> FALSE],
     num_cc |-> 0,
     num_vcc |-> 0,
     data |-> ConnectivityData_new(n),
     par |-> [v \in 0 .. (n - 1) |-> USIZE_MAX]]

\* The pop loop without its break: the whole vertex stack joins the component.
RECURSIVE PopVertices_no_break(_, _)
PopVertices_no_break(s, u) ==
    IF s.data.v_stack = <<>> THEN s
    ELSE LET n == Len(s.data.v_stack)
             v == s.data.v_stack[n]
         IN PopVertices_no_break([s EXCEPT !.data.v_stack = SubSeq(s.data.v_stack, 1, n - 1),
                                           !.cc[v] = s.num_cc], u)

\* while let Some(v) = data.v_stack.pop() { cc[v] = num_cc; if v == u { break } }
RECURSIVE PopVertices(_, _)
PopVertices(s, u) ==
    IF s.data.v_stack = <<>> THEN s
    ELSE LET n == Len(s.data.v_stack)
             v == s.data.v_stack[n]
             s1 == [s EXCEPT !.data.v_stack = SubSeq(s.data.v_stack, 1, n - 1),
                             !.cc[v] = s.num_cc]
         IN IF v = u THEN s1 ELSE PopVertices(s1, u)

-----------------------------------------------------------------------------
(* ConnectivityDirectedGraph *)

RECURSIVE scc(_, _)
RECURSIVE scc_edges(_, _, _)

\* The body of `for (_, v) in self.graph.adj_list(u)`, from the i-th entry on.
scc_edges(s, u, i) ==
    IF i > Len(adj_lists[u]) THEN s
    ELSE LET v == adj_lists[u][i][2]
             s1 == IF s.data.visited[v] = 0 THEN scc(s, v) ELSE s
             s2 == IF s1.cc[v] = 0
                   THEN [s1 EXCEPT !.data = lower(s1.data, u, s1.data.low[v])]
                   ELSE s1
         IN scc_edges(s2, u, i + 1)

scc(s, u) ==
    LET s1 == [s EXCEPT !.data = visit(s.data, u)]
        s2 == scc_edges(s1, u, 1)
    IN IF s2.data.visited[u] = s2.data.low[u]
       THEN PopVertices([s2 EXCEPT !.num_cc = s2.num_cc + 1], u)
       ELSE s2

\* for u in 0..graph.num_v() { if data.visited[u] == 0 { connect.scc(&mut data, u) } }
RECURSIVE directed_roots(_, _)
directed_roots(s, u) ==
    IF u >= num_v THEN s
    ELSE directed_roots(IF s.data.visited[u] = 0 THEN scc(s, u) ELSE s, u + 1)

ConnectivityDirectedGraph_new == directed_roots(Connect_new(num_v, num_e), 0)

\* two_sat_assign with the comparison of the two component ids reversed.
two_sat_assign_reversed ==
    LET n == num_v \div 2
    IN IF \E i \in 0 .. (n - 1) : cc[2 * i] = cc[2 * i + 1]
       THEN [op |-> "two_sat_assign", arg |-> 0, panic |-> FALSE, some |-> FALSE, val |-> <<>>]
       ELSE [op |-> "two_sat_assign", arg |-> 0, panic |-> FALSE, some |-> TRUE,
             val |-> [i \in 0 .. (n - 1) |-> cc[2 * i] > cc[2 * i + 1]]]

\* two_sat_assign: None as soon as a variable's two literals share a component.
two_sat_assign ==
    LET n == num_v \div 2
    IN IF \E i \in 0 .. (n - 1) : cc[2 * i] = cc[2 * i + 1]
       THEN [op |-> "two_sat_assign", arg |-> 0, panic |-> FALSE, some |-> FALSE, val |-> <<>>]
       ELSE [op |-> "two_sat_assign", arg |-> 0, panic |-> FALSE, some |-> TRUE,
             val |-> [i \in 0 .. (n - 1) |-> cc[2 * i] < cc[2 * i + 1]]]

\* A key that sorts by ascending component id.
sort_key_ascending(u) == cc[u]

\* The key of vertices.sort_unstable_by_key(|&u| self.num_cc - self.cc[u]).
sort_key(u) == num_cc - cc[u]

\* The orders sort_unstable_by_key may return for the vertex set S: every
\* arrangement with nondecreasing keys (the order of equal keys is unspecified).
RECURSIVE sorted_by_key(_)
sorted_by_key(S) ==
    IF S = {} THEN {<<>>}
    ELSE LET first == {u \in S : \A w \in S : sort_key(u) <= sort_key(w)}
         IN UNION {{<<u>> \o t : t \in sorted_by_key(S \ {u})} : u \in first}

topological_sort_results == sorted_by_key(Vertices)

-----------------------------------------------------------------------------
(* ConnectivityUndirectedGraph *)

\* Lines 192-200: pop the edge stack down to and including e, giving num_vcc
\* to the popped edges that have no id yet.
RECURSIVE PopEdgesTo(_, _)
PopEdgesTo(s, e) ==
    IF s.data.e_stack = <<>> THEN s
    ELSE LET n == Len(s.data.e_stack)
             top_e == s.data.e_stack[n]
             s1 == [s EXCEPT !.data.e_stack = SubSeq(s.data.e_stack, 1, n - 1),
                             !.vcc[top_e] = IF s.vcc[top_e] = 0 THEN s.num_vcc ELSE @]
         IN IF e = top_e THEN s1 ELSE PopEdgesTo(s1, e)

\* Lines 216-218: empty the edge stack, giving num_vcc to every popped edge.
RECURSIVE DrainEdges(_)
DrainEdges(s) ==
    IF s.data.e_stack = <<>> THEN s
    ELSE LET n == Len(s.data.e_stack)
             top_e == s.data.e_stack[n]
         IN DrainEdges([s EXCEPT !.data.e_stack = SubSeq(s.data.e_stack, 1, n - 1),
                                 !.vcc[top_e] = s.num_vcc])

\* The end of bcc with the root rule firing for a root with a single child.
bcc_finish_one_child(s, u, parent, children) ==
    LET s1 == IF parent = USIZE_MAX /\ children > 0
              THEN [DrainEdges([s EXCEPT !.num_vcc = s.num_vcc + 1]) EXCEPT !.isAP[u] = TRUE]
              ELSE s
    IN IF parent < USIZE_MAX /\ s1.data.visited[u] = s1.data.low[u]
       THEN PopVertices([s1 EXCEPT !.num_cc = s1.num_cc + 1], u)
       ELSE s1

\* Lines 212-231: what bcc does after its loop over the adjacency of u.
bcc_finish(s, u, parent, children) ==
    LET s1 == IF parent = USIZE_MAX /\ children > 1
              THEN [DrainEdges([s EXCEPT !.num_vcc = s.num_vcc + 1]) EXCEPT !.isAP[u] = TRUE]
              ELSE s
    IN IF parent < USIZE_MAX /\ s1.data.visited[u] = s1.data.low[u]
       THEN PopVertices([s1 EXCEPT !.num_cc = s1.num_cc + 1], u)
       ELSE s1

RECURSIVE bcc(_, _, _)
RECURSIVE bcc_edges(_, _, _, _, _)

\* The body of `for (er, vr) in self.graph.adj_list(u)`, from the i-th entry
\* on, followed by the rest of bcc.
bcc_edges(s, u, parent, i, children) ==
    IF i > Len(adj_lists[u]) THEN bcc_finish(s, u, parent, children)
    ELSE LET e == adj_lists[u][i][1]
             v == adj_lists[u][i][2]
         IN IF s.data.visited[v] = 0
            THEN LET s1 == bcc([s EXCEPT !.data.e_stack = Append(@, e)], v, u)
                     s2 == [s1 EXCEPT !.data = lower(s1.data, u, s1.data.low[v])]
                     s3 == IF parent < USIZE_MAX /\ s2.data.visited[u] <= s2.data.low[v]
                           THEN [PopEdgesTo([s2 EXCEPT !.num_vcc = s2.num_vcc + 1], e)
                                    EXCEPT !.isAP[u] = TRUE]
                           ELSE s2
                 IN bcc_edges(s3, u, parent, i + 1, children + 1)
            ELSE IF s.data.visited[v] < s.data.visited[u]
            THEN bcc_edges([s EXCEPT !.data = [lower(s.data, u, s.data.visited[v])
                                                  EXCEPT !.e_stack = Append(@, e)]],
                           u, parent, i + 1, children)
            ELSE IF v = u
            THEN bcc_edges([s EXCEPT !.num_vcc = s.num_vcc + 1, !.vcc[e] = s.num_vcc + 1],
                           u, parent, i + 1, children)
            ELSE bcc_edges(s, u, parent, i + 1, children)

bcc(s, u, parent) ==
    bcc_edges([s EXCEPT !.data = visit(s.data, u), !.par[u] = parent], u, parent, 1, 0)

\* for u in 0..graph.num_v() { if data.visited[u] == 0 { connect.bcc(&mut data, u, usize::MAX) } }
RECURSIVE undirected_roots(_, _)
undirected_roots(s, u) ==
    IF u >= num_v THEN s
    ELSE undirected_roots(IF s.data.visited[u] = 0 THEN bcc(s, u, USIZE_MAX) ELSE s, u + 1)

ConnectivityUndirectedGraph_new == undirected_roots(Connect_new(num_v, num_e), 0)

\* is_cut_vertex: indexing adj_lists[u][0] panics when u has no incident edge.
is_cut_vertex(u) ==
    IF Len(adj_lists[u]) = 0
    THEN [op |-> "is_cut_vertex", arg |-> u, panic |-> TRUE, some |-> FALSE, val |-> FALSE]
    ELSE LET first_e == adj_lists[u][1][1]
         IN [op |-> "is_cut_vertex", arg |-> u, panic |-> FALSE, some |-> TRUE,
             val |-> \E i \in 1 .. Len(adj_lists[u]) :
                        vcc[first_e] # vcc[adj_lists[u][i][1]]]

is_cut_edge(e) ==
    LET u == edges[e + 1][1]
        v == edges[e + 1][2]
    IN [op |-> "is_cut_edge", arg |-> e, panic |-> FALSE, some |-> TRUE, val |-> cc[u] # cc[v]]

-----------------------------------------------------------------------------
(* The graph collaborator (graph.rs) *)

\* literal ^ 1
xor1(l) == IF l % 2 = 0 THEN l + 1 ELSE l - 1

DirectedGraph_add_edge(g, u, v) ==
    [edges |-> Append(g.edges, <<u, v>>),
     adj_lists |-> [g.adj_lists EXCEPT ![u] = Append(@, <<Len(g.edges), v>>)]]

add_two_sat_clause(g, u, v) ==
    DirectedGraph_add_edge(DirectedGraph_add_edge(g, xor1(u), v), xor1(v), u)

\* One edge id per undirected edge, listed under both endpoints; a self-loop
\* is listed once.
UndirectedGraph_add_edge(g, u, v) ==
    [edges |-> Append(g.edges, <<u, v>>),
     adj_lists |-> [w \in DOMAIN g.adj_lists |->
                      IF w = u THEN Append(g.adj_lists[w], <<Len(g.edges), v>>)
                      ELSE IF w = v THEN Append(g.adj_lists[w], <<Len(g.edges), u>>)
                      ELSE g.adj_lists[w]]]

-----------------------------------------------------------------------------
(* Actions *)

result_vars == <<cc, vcc, isAP, num_cc, num_vcc, data, par>>

InitGraph(n) ==
    /\ num_v = n
    /\ edges = <<>>
    /\ adj_lists = [v \in 0 .. (n - 1) |-> <<>>]
    /\ phase = "build"
    /\ cc = <<>>
    /\ vcc = <<>>
    /\ isAP = <<>>
    /\ num_cc = 0
    /\ num_vcc = 0
    /\ data = ConnectivityData_new(0)
    /\ par = <<>>
    /\ ret = NoRet

\* DirectedGraph::new(vmax, _) / UndirectedGraph::new(vmax, _)
Init == \E n \in 0 .. MaxV : InitGraph(n)

\* DirectedGraph::new(2 * variables, _)
InitSat == \E n \in 0 .. MaxVars : InitGraph(2 * n)

AddDirectedEdge ==
    /\ phase = "build"
    /\ num_e < MaxE
    /\ \E u, v \in Vertices :
          LET g == DirectedGraph_add_edge([edges |-> edges, adj_lists |-> adj_lists], u, v)
          IN edges' = g.edges /\ adj_lists' = g.adj_lists
    /\ UNCHANGED <<num_v, phase, result_vars, ret>>

AddTwoSatClause ==
    /\ phase = "build"
    /\ num_e < 2 * MaxClauses
    /\ \E u, v \in Vertices :
          LET g == add_two_sat_clause([edges |-> edges, adj_lists |-> adj_lists], u, v)
          IN edges' = g.edges /\ adj_lists' = g.adj_lists
    /\ UNCHANGED <<num_v, phase, result_vars, ret>>

AddUndirectedEdge ==
    /\ phase = "build"
    /\ num_e < MaxE
    /\ \E u, v \in Vertices :
          LET g == UndirectedGraph_add_edge([edges |-> edges, adj_lists |-> adj_lists], u, v)
          IN edges' = g.edges /\ adj_lists' = g.adj_lists
    /\ UNCHANGED <<num_v, phase, result_vars, ret>>

Install(s) ==
    /\ cc' = s.cc
    /\ vcc' = s.vcc
    /\ isAP' = s.isAP
    /\ num_cc' = s.num_cc
    /\ num_vcc' = s.num_vcc
    /\ data' = s.data
    /\ par' = s.par
    /\ phase' = "done"
    /\ UNCHANGED <<num_v, edges, adj_lists, ret>>

NewDirected ==
    /\ phase = "build"
    /\ Install(ConnectivityDirectedGraph_new)

NewUndirected ==
    /\ phase = "build"
    /\ Install(ConnectivityUndirectedGraph_new)

Query(r) ==
    /\ ret' = r
    /\ UNCHANGED <<num_v, edges, adj_lists, phase, result_vars>>

TwoSatAssign ==
    /\ phase = "done"
    /\ Query(two_sat_assign)

TopologicalSort ==
    /\ phase = "done"
    /\ \E p \in topological_sort_results :
          Query([op |-> "topological_sort", arg |-> 0, panic |-> FALSE, some |-> TRUE, val |-> p])

IsCutVertex ==
    /\ phase = "done"
    /\ \E u \in Vertices : Query(is_cut_vertex(u))

IsCutEdge ==
    /\ phase = "done"
    /\ \E e \in EdgeIds : Query(is_cut_edge(e))

NextDirected == AddDirectedEdge \/ NewDirected \/ TopologicalSort

NextSat == AddTwoSatClause \/ NewDirected \/ TwoSatAssign

NextUndirected == AddUndirectedEdge \/ NewUndirected \/ IsCutVertex \/ IsCutEdge

\* The default specification is the undirected engine.
Spec == Init /\ [][NextUndirected]_vars

SpecDirected == Init /\ [][NextDirected]_vars

SpecSat == InitSat /\ [][NextSat]_vars

-----------------------------------------------------------------------------
(* Graph-theoretic definitions the properties are stated against *)

\* The vertices reachable from S along directed edges.
RECURSIVE Closure(_)
Closure(S) ==
    LET T == S \cup {edges[k][2] : k \in {j \in 1 .. num_e : edges[j][1] \in S}}
    IN IF T = S THEN S ELSE Closure(T)

MutuallyReachable(u, v) == v \in Closure({u}) /\ u \in Closure({v})

NumSCC == Cardinality({{v \in Vertices : MutuallyReachable(u, v)} : u \in Vertices})

\* The vertices of Vs connected to S by undirected edges with ids in Es and
\* both endpoints in Vs.
RECURSIVE UClosure(_, _, _)
UClosure(Vs, Es, S) ==
    LET live == {e \in Es : edges[e + 1][1] \in Vs /\ edges[e + 1][2] \in Vs}
        T == S \cup {edges[e + 1][2] : e \in {x \in live : edges[x + 1][1] \in S}}
               \cup {edges[e + 1][1] : e \in {x \in live : edges[x + 1][2] \in S}}
    IN IF T = S THEN S ELSE UClosure(Vs, Es, T)

NumComponents(Vs, Es) == Cardinality({UClosure(Vs, Es, {a}) : a \in Vs})

\* e is a bridge: without e its endpoints are disconnected.
Bridge(e) == edges[e + 1][2] \notin UClosure(Vertices, EdgeIds \ {e}, {edges[e + 1][1]})

Neighbours(u) ==
    {adj_lists[u][i][2] : i \in 1 .. Len(adj_lists[u])} \ {u}

\* Removing u separates two of its former neighbours.
SeparatesNeighbours(u) ==
    \E a, b \in Neighbours(u) : b \notin UClosure(Vertices \ {u}, EdgeIds, {a})

\* Removing u increases the number of connected components.
Articulation(u) ==
    NumComponents(Vertices \ {u}, EdgeIds) > NumComponents(Vertices, EdgeIds)

\* The 2-SAT instance the implication graph encodes: clause k is the literal
\* pair (a, b) whose first implication edge not-a -> b is edge 2k.
Clauses == {<<xor1(edges[2 * k + 1][1]), edges[2 * k + 1][2]>> : k \in 0 .. ((num_e \div 2) - 1)}

LitTrue(a, l) == IF l % 2 = 0 THEN a[l \div 2] ELSE ~a[l \div 2]

Satisfies(a) == \A c \in Clauses : LitTrue(a, c[1]) \/ LitTrue(a, c[2])

Satisfiable == \E a \in [0 .. ((num_v \div 2) - 1) -> BOOLEAN] : Satisfies(a)

Pos(p, u) == CHOOSE i \in 1 .. Len(p) : p[i] = u

Children(u) == {v \in Vertices : par[v] = u}

-----------------------------------------------------------------------------
(* Properties *)

\* C1: after ConnectivityDirectedGraph::new, cc[u] = cc[v] exactly when u and
\* v are mutually reachable, and num_cc is the number of strongly connected
\* components.
C1_SccPartition ==
    phase = "done" =>
        /\ \A u, v \in Vertices : (cc[u] = cc[v]) <=> MutuallyReachable(u, v)
        /\ num_cc = NumSCC

\* A finished run on three vertices with a two-vertex cycle, a third vertex
\* outside it and a self-loop.
C1_Witness ==
    /\ phase = "done"
    /\ num_v = 3
    /\ \E u, v \in Vertices : u # v /\ cc[u] = cc[v]
    /\ \E u, v \in Vertices : cc[u] # cc[v]
    /\ \E k \in 1 .. num_e : edges[k][1] = edges[k][2]

\* C2: on the implication graph of a 2-SAT instance, two_sat_assign returns
\* None exactly when the instance is unsatisfiable, and otherwise an
\* assignment satisfying every clause.
C2_TwoSat ==
    ret.op = "two_sat_assign" =>
        /\ ~ret.some <=> ~Satisfiable
        /\ ret.some => Satisfies(ret.val)

\* two_sat_assign answered None on an instance with two variables.
C2_Witness ==
    /\ ret.op = "two_sat_assign"
    /\ ~ret.some
    /\ num_v = 4
    /\ ~Satisfiable

\* C3: topological_sort returns a permutation of the vertices that puts u
\* before v for every edge u -> v joining two different strongly connected
\* components.
C3_TopologicalOrder ==
    ret.op = "topological_sort" =>
        /\ Len(ret.val) = num_v
        /\ \A u \in Vertices : \E i \in 1 .. num_v : ret.val[i] = u
        /\ \A k \in 1 .. num_e :
              ~MutuallyReachable(edges[k][1], edges[k][2])
                  => Pos(ret.val, edges[k][1]) < Pos(ret.val, edges[k][2])

\* An order was returned for a graph with a cycle and an edge leaving it
\* towards a vertex of larger index than its source's.
C3_Witness ==
    /\ ret.op = "topological_sort"
    /\ \E u, v \in Vertices : u # v /\ MutuallyReachable(u, v)
    /\ \E k \in 1 .. num_e :
          /\ ~MutuallyReachable(edges[k][1], edges[k][2])
          /\ edges[k][1] > edges[k][2]

\* C4 (as claimed): is_cut_edge(e) is true exactly when e is a bridge.
C4_CutEdgeIsBridge ==
    (ret.op = "is_cut_edge" /\ ~ret.panic) => (ret.val <=> Bridge(ret.arg))

\* C5 (as claimed): for a vertex with an incident edge, is_cut_vertex(u) is
\* true exactly when removing u separates two of its former neighbours.
C5_CutVertexIsArticulation ==
    (ret.op = "is_cut_vertex" /\ ~ret.panic) => (ret.val <=> SeparatesNeighbours(ret.arg))

\* C6 (as claimed): after a run every vertex has 1 <= cc[v] <= num_cc and,
\* for the undirected engine, every edge has 1 <= vcc[e] <= num_vcc.
C6_IdsNonzero ==
    phase = "done" =>
        /\ \A v \in Vertices : 1 <= cc[v] /\ cc[v] <= num_cc
        /\ \A e \in EdgeIds : 1 <= vcc[e] /\ vcc[e] <= num_vcc

\* C7 (as claimed): every edge u -> v between different components has
\* cc[u] <= cc[v].
C7_EdgeIdsAscending ==
    phase = "done" =>
        \A k \in 1 .. num_e :
            cc[edges[k][1]] # cc[edges[k][2]] => cc[edges[k][1]] <= cc[edges[k][2]]

\* C7 (amended): every edge u -> v between different components has
\* cc[u] >= cc[v]: component ids are in reverse topological order.
C7_EdgeIdsDescending ==
    phase = "done" =>
        \A k \in 1 .. num_e :
            cc[edges[k][1]] # cc[edges[k][2]] => cc[edges[k][1]] >= cc[edges[k][2]]

\* A finished run with an edge between two components whose source has the
\* smaller index.
C7_Witness ==
    /\ phase = "done"
    /\ ret.op = "none"
    /\ \E k \in 1 .. num_e :
          /\ cc[edges[k][1]] # cc[edges[k][2]]
          /\ edges[k][1] < edges[k][2]

\* C8 (as claimed): every query returns a value, none panics.
C8_QueriesTotal == ret.op # "none" => ~ret.panic

\* C9: isAP[u] is true exactly when removing u increases the number of
\* connected components; a DFS root is flagged exactly when it has two or
\* more DFS children, any other vertex exactly when some DFS child v has
\* visited[u] <= low[v].  Stated of the state in which new returns; the
\* queries leave the arrays unchanged.
C9_IsAP ==
    (phase = "done" /\ ret.op = "none") =>
        \A u \in Vertices :
            /\ isAP[u] <=> Articulation(u)
            /\ par[u] = USIZE_MAX => (isAP[u] <=> Cardinality(Children(u)) >= 2)
            /\ par[u] # USIZE_MAX =>
                  (isAP[u] <=> \E v \in Children(u) : data.visited[u] <= data.low[v])

\* A finished run in which some vertex is flagged while a DFS root with a
\* single child is not.
C9_Witness ==
    /\ phase = "done"
    /\ ret.op = "none"
    /\ \E u \in Vertices : isAP[u]
    /\ \E u \in Vertices :
          /\ par[u] = USIZE_MAX
          /\ Cardinality(Children(u)) = 1
          /\ ~isAP[u]

\* C10 (as claimed): for a vertex with an incident edge, is_cut_vertex(u)
\* equals isAP[u].
C10_CutVertexEqualsIsAP ==
    (ret.op = "is_cut_vertex" /\ ~ret.panic) => (ret.val = isAP[ret.arg])

====
